---- MODULE Spec2Model ----
(***************************************************************************)
(* Model of canmonitor/source_handler.py: the two CAN message sources      *)
(* SerialHandler (live serial device, custom text framing) and             *)
(* CandumpHandler (candump log replay with pacing).                        *)
(*                                                                         *)
(* Text is modelled as sequences of one-character strings, bytes objects   *)
(* produced by hex decoding as sequences of integers 0..255, and floats as *)
(* exact rationals [n, d] in lowest terms (rounding is not modelled).      *)
(***************************************************************************)
EXTENDS Integers, Sequences, FiniteSets, TLC

(***************************************************************************)
(* Bounds of the model.                                                    *)
(***************************************************************************)
\* lines in a multi-line serial stream
MaxLines == 2
\* lines in a multi-line capture file
MaxFileLines == 2

(***************************************************************************)
(* Characters.                                                             *)
(***************************************************************************)
NL == "\n"

Digits == {"0", "1", "2", "3", "4", "5", "6", "7", "8", "9"}

HexUpper == Digits \cup {"A", "B", "C", "D", "E", "F"}

HexAny == HexUpper \cup {"a", "b", "c", "d", "e", "f"}

\* bytes.strip() with no argument removes ASCII whitespace
Whitespace == {" ", "\t", "\n", "\r"}

DigitVal(c) ==
    CASE c = "0" -> 0 [] c = "1" -> 1 [] c = "2" -> 2 [] c = "3" -> 3
      [] c = "4" -> 4 [] c = "5" -> 5 [] c = "6" -> 6 [] c = "7" -> 7
      [] c = "8" -> 8 [] c = "9" -> 9

HexVal(c) ==
    CASE c \in Digits -> DigitVal(c)
      [] c \in {"A", "a"} -> 10 [] c \in {"B", "b"} -> 11
      [] c \in {"C", "c"} -> 12 [] c \in {"D", "d"} -> 13
      [] c \in {"E", "e"} -> 14 [] c \in {"F", "f"} -> 15

(***************************************************************************)
(* Python built-ins used by the handlers.  A built-in that can raise       *)
(* returns [ok |-> FALSE] in that case and [ok |-> TRUE, v |-> value]      *)
(* otherwise.                                                              *)
(***************************************************************************)
Raise == [ok |-> FALSE, v |-> 0]

Ok(x) == [ok |-> TRUE, v |-> x]

\* s[k:] for k >= 0
SliceFrom(s, k) == SubSeq(s, k + 1, Len(s))

\* s.strip(chars): remove leading and trailing characters of the set
RECURSIVE LStrip(_, _)
LStrip(s, chars) ==
    IF s # <<>> /\ Head(s) \in chars THEN LStrip(Tail(s), chars) ELSE s

RECURSIVE RStrip(_, _)
RStrip(s, chars) ==
    IF s # <<>> /\ s[Len(s)] \in chars
    THEN RStrip(SubSeq(s, 1, Len(s) - 1), chars) ELSE s

Strip(s, chars) == RStrip(LStrip(s, chars), chars)

\* s.replace(c, b''): delete every occurrence of the character
Remove(s, c) == SelectSeq(s, LAMBDA x : x # c)

\* index of the first occurrence of c in s, 0 when absent
RECURSIVE IndexOf(_, _, _)
IndexOf(s, c, from) ==
    IF from > Len(s) THEN 0
    ELSE IF s[from] = c THEN from ELSE IndexOf(s, c, from + 1)

\* s.split(sep, maxsplit): at most maxsplit splits, the last token keeps
\* the remaining separators; an empty input yields one empty token
RECURSIVE Split(_, _, _)
Split(s, sep, maxsplit) ==
    LET i == IndexOf(s, sep, 1) IN
    IF maxsplit = 0 \/ i = 0 THEN <<s>>
    ELSE <<SubSeq(s, 1, i - 1)>> \o Split(SliceFrom(s, i), sep, maxsplit - 1)

\* value of a string of decimal digits, most significant first
RECURSIVE DecVal(_)
DecVal(s) ==
    IF s = <<>> THEN 0 ELSE 10 * DecVal(SubSeq(s, 1, Len(s) - 1)) + DigitVal(s[Len(s)])

\* digits with single underscores between them (PEP 515), as int() accepts
DigitsWithUnderscores(s) ==
    /\ s # <<>>
    /\ \A i \in 1..Len(s) : s[i] \in Digits \cup {"_"}
    /\ s[1] # "_" /\ s[Len(s)] # "_"
    /\ \A i \in 1..(Len(s) - 1) : ~(s[i] = "_" /\ s[i + 1] = "_")

\* int(b): surrounding whitespace, an optional sign, decimal digits
Int_(b) ==
    LET t == Strip(b, Whitespace)
        signed == t # <<>> /\ t[1] \in {"+", "-"}
        body == IF signed THEN Tail(t) ELSE t
        mag == DecVal(Remove(body, "_"))
    IN  IF DigitsWithUnderscores(body)
        THEN Ok(IF signed /\ t[1] = "-" THEN 0 - mag ELSE mag)
        ELSE Raise

\* HexBytes with the two digits of each pair swapped
RECURSIVE HexBytes_Mut(_)
HexBytes_Mut(s) ==
    IF Len(s) < 2 THEN <<>>
    ELSE <<16 * HexVal(s[2]) + HexVal(s[1])>> \o HexBytes_Mut(SliceFrom(s, 2))

\* bytes of a string of hex digit pairs
RECURSIVE HexBytes(_)
HexBytes(s) ==
    IF Len(s) < 2 THEN <<>>
    ELSE <<16 * HexVal(s[1]) + HexVal(s[2])>> \o HexBytes(SliceFrom(s, 2))

\* binascii.unhexlify(b): even number of hex digits of either case
Unhexlify(b) ==
    IF Len(b) % 2 = 0 /\ \A i \in 1..Len(b) : b[i] \in HexAny
    THEN Ok(HexBytes(b)) ELSE Raise

\* bytes.fromhex(s): hex digit pairs, ASCII whitespace between pairs skipped
RECURSIVE FromHexPairs(_)
FromHexPairs(s) ==
    LET t == LStrip(s, Whitespace) IN
    IF t = <<>> THEN Ok(<<>>)
    ELSE IF Len(t) >= 2 /\ t[1] \in HexAny /\ t[2] \in HexAny
         THEN LET rest == FromHexPairs(SliceFrom(t, 2)) IN
              IF rest.ok THEN Ok(<<16 * HexVal(t[1]) + HexVal(t[2])>> \o rest.v)
              ELSE Raise
         ELSE Raise

\* value of a string of hex digits, most significant first: int(s, 16) on
\* the digits that MSG_RE captures
RECURSIVE HexIntVal(_)
HexIntVal(s) ==
    IF s = <<>> THEN 0 ELSE 16 * HexIntVal(SubSeq(s, 1, Len(s) - 1)) + HexVal(s[Len(s)])

(***************************************************************************)
(* Floats, as exact rationals in lowest terms.                             *)
(***************************************************************************)
RECURSIVE GCD(_, _)
GCD(a, b) == IF b = 0 THEN a ELSE GCD(b, a % b)

Abs(x) == IF x < 0 THEN 0 - x ELSE x

Rat(n, d) == LET g == GCD(Abs(n), d) IN [n |-> n \div g, d |-> d \div g]

Zero == Rat(0, 1)

One == Rat(1, 1)

RatSub(a, b) == Rat(a.n * b.d - b.n * a.d, a.d * b.d)

\* a / b for b > 0
RatDiv(a, b) == Rat(a.n * b.d, a.d * b.n)

RatLt(a, b) == a.n * b.d < b.n * a.d

RatLe(a, b) == a.n * b.d <= b.n * a.d

RECURSIVE Pow10(_)
Pow10(k) == IF k = 0 THEN 1 ELSE 10 * Pow10(k - 1)

\* float(s) on the characters MSG_RE lets through ([.0-9]+): digits with at
\* most one decimal point and at least one digit
Float_(s) ==
    LET dot == IndexOf(s, ".", 1)
        digits == Remove(s, ".")
        frac == IF dot = 0 THEN 0 ELSE Len(s) - dot
    IN  IF /\ digits # <<>>
           /\ Len(s) - Len(digits) <= 1
           /\ \A i \in 1..Len(s) : s[i] \in Digits \cup {"."}
        THEN Ok(Rat(DecVal(digits), Pow10(frac)))
        ELSE Raise

(***************************************************************************)
(* CandumpHandler.MSG_RE, matched at the start of the line (re.match).     *)
(***************************************************************************)
\* last index of the longest run of characters of the class starting at
\* from; from - 1 when the run is empty
RECURSIVE RunEnd(_, _, _)
RunEnd(s, from, class) ==
    IF from <= Len(s) /\ s[from] \in class THEN RunEnd(s, from + 1, class)
    ELSE from - 1

SetMax(S) == CHOOSE x \in S : \A y \in S : y <= x

\* r"\(([.0-9]+)\).* ([0-9A-F]+)\#([0-9A-F]*)": the greedy ".*" makes the
\* last " <HEX>#" of the line the id; group 3 stops at the first character
\* that is not an uppercase hex digit and the rest of the line is ignored
MSG_RGX_match(line) ==
    LET g1end == RunEnd(line, 2, Digits \cup {"."})
        close == g1end + 1
        \* positions of a space followed by uppercase hex digits and "#"
        spaces == {p \in (close + 1)..Len(line) :
                      /\ line[p] = " "
                      /\ RunEnd(line, p + 1, HexUpper) >= p + 1
                      /\ RunEnd(line, p + 1, HexUpper) + 1 <= Len(line)
                      /\ line[RunEnd(line, p + 1, HexUpper) + 1] = "#"}
    IN  IF /\ Len(line) >= 1 /\ line[1] = "("
           /\ g1end >= 2
           /\ close <= Len(line) /\ line[close] = ")"
           /\ spaces # {}
        THEN LET p == SetMax(spaces)
                 hash == RunEnd(line, p + 1, HexUpper) + 1
             IN  Ok([abstime |-> SubSeq(line, 2, g1end),
                     hex_can_id |-> SubSeq(line, p + 1, hash - 1),
                     hex_can_data |-> SubSeq(line, hash + 1,
                                             RunEnd(line, hash + 1, HexUpper))])
        ELSE Raise

(***************************************************************************)
(* Input: what the serial device sends and what the capture file holds.    *)
(***************************************************************************)
\* concatenation of a sequence of sequences
RECURSIVE Concat(_)
Concat(ss) == IF ss = <<>> THEN <<>> ELSE Head(ss) \o Concat(Tail(ss))

\* every sequence over S of length lo..hi
SeqsOf(S, lo, hi) == UNION {[1..k -> S] : k \in lo..hi}

FRAME == <<"F", "R", "A", "M", "E">>

IdFields ==
    {<<"I", "D", "=", "1">>,
     <<"I", "D", "=", "2", "6">>,
     <<"I", "D", "=", "-", "1">>,
     <<"I", "D", "=", "x">>}

LenFields ==
    {<<"L", "E", "N", "=", "1">>,
     <<"L", "E", "N", "=", "2">>,
     <<"L", "E", "N", "=", "0">>,
     <<"L", "E", "N", "=", "x">>}

DataFields ==
    {<<"A", "A">>,
     <<"a", "5">>,
     <<"1", "C", ":", "F", "6">>,
     <<"1", "C", "F", "6">>,
     <<"A">>,
     <<"A", ":", "B">>,
     <<"G", "G">>,
     <<"1", "C", ":", "F">>,
     <<"1", "C", " ", "F", "6">>}

\* lines of the documented shape FRAME:ID=..:LEN=..:data, well-formed or not
ShapedSerialLines ==
    {FRAME \o <<":">> \o i \o <<":">> \o l \o <<":">> \o d :
        i \in IdFields, l \in LenFields, d \in DataFields}

\* lines with fewer than four tokens, an empty data token, a CR before the
\* newline
OddSerialLines ==
    {<<>>,
     <<"F", "R", "A", "M", "E">>,
     <<"F", "R", "A", "M", "E", ":", "I", "D", "=", "1">>,
     <<"F", "R", "A", "M", "E", ":", "I", "D", "=", "1", ":", "L", "E", "N", "=", "0">>,
     <<"F", "R", "A", "M", "E", ":", "I", "D", "=", "1", ":", "L", "E", "N", "=", "0", ":">>,
     <<"F", "R", "A", "M", "E", ":", "I", "D", "=", "1", ":", "L", "E", "N", "=", "1", ":", "A", "A", "\r">>,
     <<"F", "R", "A", "M", "E", ":", "I", "D", "=", " ", "1", "_", "0", ":", "L", "E", "N", "=", "+", "1", ":", "0", "b">>}

\* the lines of multi-line streams
CoreSerialLines ==
    {<<"F", "R", "A", "M", "E", ":", "I", "D", "=", "1", ":", "L", "E", "N", "=", "1", ":", "A", "A">>,
     <<"F", "R", "A", "M", "E", ":", "I", "D", "=", "1", ":", "L", "E", "N", "=", "2", ":", "A", "A">>,
     <<>>}

\* a line that never gets its newline
UnfinishedLine == <<"F", "R", "A", "M", "E", ":", "I", "D">>

Terminated(ls) == Concat([k \in 1..Len(ls) |-> ls[k] \o <<NL>>])

SerialStreams ==
    {Terminated(<<l>>) : l \in ShapedSerialLines \cup OddSerialLines}
    \cup {Terminated(ls) \o tail :
            ls \in SeqsOf(CoreSerialLines, 0, MaxLines), tail \in {<<>>, UnfinishedLine}}

Timestamps ==
    {<<"0", ".", "0">>,
     <<"1", ".", "0">>,
     <<"0", ".", "5">>,
     <<"2">>,
     <<"1", ".", "2", ".", "3">>,
     <<".">>}

HexIds ==
    {<<"1", "2", "3">>,
     <<"1", "F">>}

HexData ==
    {<<>>,
     <<"A", "B">>,
     <<"0", "1", "0", "2">>,
     <<"A">>,
     <<"a", "b">>,
     <<"A", "B", "z", "z">>,
     <<"A", "B", " ", "C">>}

CAN0 == <<" ", "c", "a", "n", "0", " ">>

CandumpLine(t, i, d) == <<"(">> \o t \o <<")">> \o CAN0 \o i \o <<"#">> \o d

ShapedCandumpLines ==
    {CandumpLine(t, i, d) : t \in Timestamps, i \in HexIds, d \in HexData}

\* blank line, no pattern match, lowercase id, two "<HEX>#" groups
OddCandumpLines ==
    {<<>>,
     <<"g", "a", "r", "b", "a", "g", "e">>,
     <<"x", "(", "0", ".", "0", ")", " ", "c", "a", "n", "0", " ", "1", "#", "A", "B">>,
     <<"(", "0", ".", "0", ")", " ", "c", "a", "n", "0", " ", "1", "f", "#", "A", "B">>,
     <<"(", "0", ".", "0", ")", "1", "#", "A", "B">>,
     <<"(", "0", ".", "0", ")", " ", "c", "a", "n", "0", " ", "1", "#", "A", "B", " ", "2", "#", "C", "D">>}

CoreCandumpLines ==
    {CandumpLine(t, <<"1">>, d) :
        t \in {<<"0", ".", "0">>,
              <<"1", ".", "0">>,
              <<"0", ".", "5">>},
        d \in {<<"A", "B">>,
              <<"A">>}}
    \cup {<<>>}

\* a capture file: lines ended by a newline, the last one possibly not
CaptureFiles ==
    {Terminated(<<l>>) : l \in ShapedCandumpLines \cup OddCandumpLines}
    \cup {Terminated(ls) : ls \in SeqsOf(CoreCandumpLines, 0, MaxFileLines)}
    \cup {Terminated(ls) \o CandumpLine(<<"2">>, <<"1">>, <<"A", "B">>) :
            ls \in SeqsOf(CoreCandumpLines, 0, MaxFileLines - 1)}

\* the speed_scale argument of CandumpHandler(...): None or a number
SpeedArgs ==
    {[none |-> TRUE, n |-> 0, d |-> 1]}
    \cup {[none |-> FALSE, n |-> r[1], d |-> r[2]] :
            r \in {<<0, 1>>, <<0 - 1, 1>>, <<1, 2>>, <<1, 1>>, <<2, 1>>}}

(***************************************************************************)
(* State.                                                                  *)
(***************************************************************************)
VARIABLES
    source,         \* the class the caller constructed: "serial" or "candump"
    serial_device,  \* SerialHandler.serial_device: "None", "open", "closed"
    stream,         \* every byte the device sends, from the first on
    wire,           \* bytes the device has not sent yet
    rx,             \* bytes received by the port and not read yet
    line,           \* local `line` of _read_until_newline while it polls
    reads,          \* kinds of readline() results the latest get_message got
                    \* before the one with the newline: "empty", "partial"
    file_object,    \* CandumpHandler.file_object: "None", "open", "closed"
    file,           \* contents of the capture file
    pos,            \* characters of the file already read
    speed_arg,      \* the speed_scale argument the constructor was given
    speed_scale,    \* CandumpHandler.speed_scale
    clock,          \* CandumpHandler.clock
    pc,             \* "idle", "polling" (serial read loop), "sleeping" (time.sleep)
    locals,         \* locals of _parse_from_candump held across time.sleep
    slept,          \* durations passed to time.sleep by the latest get_message
    frame_time,     \* timestamp of the latest Frame returned by CandumpHandler
    lifecycle,      \* calls made so far: "new" (no open()), "failed" (open()
                    \* raised), "open", "closed" (close() after open())
    handed,         \* the raw line and the outcome of every get_message()
                    \* that read a line, oldest first
    result          \* outcome of the latest completed call

vars == <<source, serial_device, stream, wire, rx, line, reads, file_object, file,
          pos, speed_arg, speed_scale, clock, pc, locals, slept, frame_time,
          lifecycle, handed, result>>

serialVars == <<serial_device, stream, wire, rx, line, reads>>

candumpVars == <<file_object, file, pos, speed_arg, speed_scale, clock, locals, slept, frame_time>>

NoLocals == [line |-> <<>>, abstime |-> Zero, hex_can_id |-> <<>>, hex_can_data |-> <<>>]

\* outcome of a call: what it returned or raised, the line it decoded, and
\* the input position, clock and latest frame timestamp when it was called
Res(op, outcome, can_id, data, ln) ==
    [op |-> op, outcome |-> outcome, can_id |-> can_id, data |-> data,
     line |-> ln, at |-> pos, clock0 |-> clock, frame_time0 |-> frame_time,
     abstime |-> Zero]

(***************************************************************************)
(* SerialHandler.                                                          *)
(***************************************************************************)
\* a read that returns everything received, newline or not
Readline_Mut(buf) == buf

\* serial_device.readline() with timeout=0: the received bytes up to and
\* including the first newline, or all of them when there is none
Readline(buf) ==
    LET i == IndexOf(buf, NL, 1) IN
    IF i = 0 THEN buf ELSE SubSeq(buf, 1, i)

\* a loop condition that takes any read for a whole line
EndsWithNewline_Mut(b) == TRUE

\* line.endswith(b'\n')
EndsWithNewline(b) == b # <<>> /\ b[Len(b)] = NL

\* the three parse steps of _parse inside the try block on the tokens of
\* the line; exc is what the first failing step raises: IndexError for a
\* missing token, ValueError from int() or unhexlify() (binascii.Error is a
\* ValueError)
SerialHandler_try(frame) ==
    LET frame_id == IF Len(frame) >= 2 THEN Int_(SliceFrom(frame[2], 3)) ELSE Raise
        frame_length == IF Len(frame) >= 3 THEN Int_(SliceFrom(frame[3], 4)) ELSE Raise
        data == IF Len(frame) >= 4 THEN Unhexlify(Remove(frame[4], ":")) ELSE Raise
        exc == IF Len(frame) < 2 THEN "IndexError"
               ELSE IF ~frame_id.ok THEN "ValueError"
               ELSE IF Len(frame) < 3 THEN "IndexError"
               ELSE IF ~frame_length.ok THEN "ValueError"
               ELSE IF Len(frame) < 4 THEN "IndexError"
               ELSE IF ~data.ok THEN "ValueError"
               ELSE ""
    IN  [ok |-> exc = "", exc |-> exc,
         frame_id |-> frame_id.v, frame_length |-> frame_length.v, data |-> data.v]

\* the split of _parse, done once, and the parse steps on its tokens
SerialHandler_fields(ln) ==
    CHOOSE f \in {SerialHandler_try(frame) : frame \in {Split(ln, ":", 3)}} : TRUE

\* an except clause that lets IndexError through
Caught_Mut(exc) == exc = "ValueError"

\* `except (IndexError, ValueError)` of _parse
Caught(exc) == exc \in {"IndexError", "ValueError"}

\* the length check accepting a payload shorter than declared
LengthMatches_Mut(data, frame_length) == Len(data) <= frame_length

\* the length check of _parse
LengthMatches(data, frame_length) == Len(data) = frame_length

\* SerialHandler._parse(line)
SerialHandler_parse(ln) ==
    LET f == SerialHandler_fields(ln) IN
    IF ~f.ok
    THEN IF Caught(f.exc) THEN Res("get_message", "InvalidFrame", 0, <<>>, ln)
         ELSE Res("get_message", f.exc, 0, <<>>, ln)
    ELSE IF ~LengthMatches(f.data, f.frame_length)
         THEN Res("get_message", "InvalidFrame", 0, <<>>, ln)
         ELSE Res("get_message", "Frame", f.frame_id, f.data, ln)

\* close() without its guard
Held_Mut(handle) == TRUE

\* `if self.serial_device:` / `if self.file_object:` in close(): None is
\* falsy, a port or file object is truthy
Held(handle) == handle # "None"

\* close() that leaves the resource as it is
CloseHandle_Mut(handle) == [handle |-> handle, outcome |-> "ok"]

\* close(): the handle after the call and what the call raised; calling
\* .close() on None would raise AttributeError
CloseHandle(handle) ==
    IF Held(handle)
    THEN IF handle = "None" THEN [handle |-> handle, outcome |-> "AttributeError"]
         ELSE [handle |-> "closed", outcome |-> "ok"]
    ELSE [handle |-> handle, outcome |-> "ok"]

\* SerialHandler.open(): serial.Serial(...) opens the port or raises
SerialOpen ==
    /\ source = "serial" /\ pc = "idle" /\ serial_device = "None"
    /\ \E opened \in BOOLEAN :
          IF opened
          THEN /\ serial_device' = "open"
               /\ lifecycle' = "open"
               /\ result' = Res("open", "ok", 0, <<>>, <<>>)
          ELSE /\ serial_device' = serial_device
               /\ lifecycle' = "failed"
               /\ result' = Res("open", "SerialException", 0, <<>>, <<>>)
    /\ UNCHANGED <<source, stream, wire, rx, line, reads, pc, handed>>
    /\ UNCHANGED candumpVars

\* SerialHandler.close()
SerialClose ==
    /\ source = "serial" /\ pc = "idle"
    /\ serial_device' = CloseHandle(serial_device).handle
    /\ result' = Res("close", CloseHandle(serial_device).outcome, 0, <<>>, <<>>)
    /\ lifecycle' = IF lifecycle = "open" THEN "closed" ELSE lifecycle
    /\ UNCHANGED <<source, stream, wire, rx, line, reads, pc, handed>>
    /\ UNCHANGED candumpVars

\* one readline() of _read_until_newline appended to the bytes got so far;
\* with the newline in, the line is stripped and parsed
SerialReadMore(sofar) ==
    \E got \in {sofar \o Readline(rx)} :
    /\ rx' = SliceFrom(rx, Len(Readline(rx)))
    /\ IF EndsWithNewline(got)
       THEN /\ \E parsed \in {SerialHandler_parse(ln) : ln \in {Strip(got, Whitespace)}} :
                  /\ result' = parsed
                  /\ handed' = Append(handed, [raw |-> got, outcome |-> parsed.outcome])
            /\ line' = <<>>
            /\ pc' = "idle"
       ELSE /\ result' = Res("get_message", "pending", 0, <<>>, <<>>)
            /\ handed' = handed
            /\ line' = got
            /\ pc' = "polling"

\* what the next readline() brings: nothing, a piece without the newline,
\* or the rest of the line
ReadKind ==
    IF Readline(rx) = <<>> THEN {"empty"}
    ELSE IF EndsWithNewline(Readline(rx)) THEN {} ELSE {"partial"}

\* SerialHandler.get_message(), up to its first readline()
SerialGetMessage ==
    /\ source = "serial" /\ pc = "idle"
    /\ CASE serial_device = "None" ->
              \* None has no attribute readline
              /\ result' = Res("get_message", "AttributeError", 0, <<>>, <<>>)
              /\ reads' = {}
              /\ UNCHANGED <<rx, line, pc, handed>>
         [] serial_device = "closed" ->
              \* pyserial refuses to read a closed port
              /\ result' = Res("get_message", "SerialException", 0, <<>>, <<>>)
              /\ reads' = {}
              /\ UNCHANGED <<rx, line, pc, handed>>
         [] serial_device = "open" ->
              /\ SerialReadMore(<<>>)
              /\ reads' = ReadKind
    /\ UNCHANGED <<source, serial_device, stream, wire, lifecycle>>
    /\ UNCHANGED candumpVars

\* one more iteration of the while loop of _read_until_newline
SerialPoll ==
    /\ source = "serial" /\ pc = "polling" /\ serial_device = "open"
    /\ SerialReadMore(line)
    /\ reads' = reads \cup ReadKind
    /\ UNCHANGED <<source, serial_device, stream, wire, lifecycle>>
    /\ UNCHANGED candumpVars

\* the device sends some more bytes, in a fragment of any size
DeviceSend ==
    /\ source = "serial" /\ serial_device = "open"
    /\ \E k \in 1..Len(wire) :
          /\ rx' = rx \o SubSeq(wire, 1, k)
          /\ wire' = SliceFrom(wire, k)
    /\ UNCHANGED <<source, serial_device, stream, line, reads, pc, lifecycle, handed,
                   result>>
    /\ UNCHANGED candumpVars

(***************************************************************************)
(* CandumpHandler.                                                         *)
(***************************************************************************)
\* __init__ without the coercion of values <= 0
CandumpHandler_init_Mut(arg) == IF arg.none THEN One ELSE Rat(arg.n, arg.d)

\* CandumpHandler.__init__: the speed_scale it stores
CandumpHandler_init(arg) ==
    IF arg.none \/ arg.n = 0 \/ arg.n <= 0 THEN One ELSE Rat(arg.n, arg.d)

\* file_object.readline(): the text up to and including the next newline,
\* or up to the end of the file; empty only at the end of the file
FileReadline == Readline(SliceFrom(file, pos))

\* the end-of-file test taking a blank line for the end of the file
AtEnd_Mut(raw) == Strip(raw, {NL}) = <<>>

\* `if line == '':` in get_message: nothing was read, the file is exhausted
AtEnd(raw) == raw = <<>>

\* the delay without the speed scale
Delay_Mut(abstime) == RatSub(abstime, clock)

\* the argument _parse_from_candump passes to time.sleep
Delay(abstime) == RatDiv(RatSub(abstime, clock), speed_scale)

\* time.sleep taking a negative argument for no wait
SleepAccepts_Mut(secs) == TRUE

\* time.sleep(secs) raises ValueError for a negative argument
SleepAccepts(secs) == ~RatLt(secs, Zero)

\* the clock set only when the hex data of the line decodes
ClockAfter_Mut(l) == IF FromHexPairs(l.hex_can_data).ok THEN l.abstime ELSE clock

\* `self.clock = abstime`, the statement after time.sleep
ClockAfter(l) == l.abstime

\* _parse_from_candump after time.sleep returns
CandumpHandler_decode(l) ==
    LET can_id == HexIntVal(l.hex_can_id)
        can_data == FromHexPairs(l.hex_can_data)
    IN  IF can_data.ok
        THEN [Res("get_message", "Frame", can_id, can_data.v, l.line)
                EXCEPT !.abstime = l.abstime]
        ELSE [Res("get_message", "InvalidFrame", 0, <<>>, l.line)
                EXCEPT !.abstime = l.abstime]

\* CandumpHandler.open(): the file is opened at its start, or open() raises
CandumpOpen ==
    /\ source = "candump" /\ pc = "idle" /\ file_object = "None"
    /\ \E opened \in BOOLEAN :
          IF opened
          THEN /\ file_object' = "open"
               /\ lifecycle' = "open"
               /\ result' = Res("open", "ok", 0, <<>>, <<>>)
          ELSE /\ file_object' = file_object
               /\ lifecycle' = "failed"
               /\ result' = Res("open", "OSError", 0, <<>>, <<>>)
    /\ UNCHANGED <<source, file, pos, speed_arg, speed_scale, clock, pc, locals, slept,
                   frame_time, handed>>
    /\ UNCHANGED serialVars

\* CandumpHandler.close()
CandumpClose ==
    /\ source = "candump" /\ pc = "idle"
    /\ file_object' = CloseHandle(file_object).handle
    /\ result' = Res("close", CloseHandle(file_object).outcome, 0, <<>>, <<>>)
    /\ lifecycle' = IF lifecycle = "open" THEN "closed" ELSE lifecycle
    /\ UNCHANGED <<source, file, pos, speed_arg, speed_scale, clock, pc, locals, slept,
                   frame_time, handed>>
    /\ UNCHANGED serialVars

\* get_message() on an open file, up to the call of time.sleep
CandumpReadAndMatch ==
    LET raw == FileReadline
        ln == Strip(raw, {NL})
        msg_match == MSG_RGX_match(ln)
        abstime == Float_(msg_match.v.abstime)
    IN  /\ pos' = pos + Len(raw)
        /\ slept' = IF ~AtEnd(raw) /\ msg_match.ok /\ abstime.ok
                    THEN <<Delay(abstime.v)>> ELSE <<>>
        /\ IF AtEnd(raw)
           THEN /\ result' = Res("get_message", "EOFError", 0, <<>>, <<>>)
                /\ UNCHANGED <<pc, locals>>
           ELSE IF ~msg_match.ok
           THEN /\ result' = Res("get_message", "InvalidFrame", 0, <<>>, ln)
                /\ UNCHANGED <<pc, locals>>
           ELSE IF ~abstime.ok
           THEN \* float() raises ValueError, which nothing catches
                /\ result' = Res("get_message", "ValueError", 0, <<>>, ln)
                /\ UNCHANGED <<pc, locals>>
           ELSE IF ~SleepAccepts(Delay(abstime.v))
           THEN \* time.sleep raises ValueError, which nothing catches
                /\ result' = [Res("get_message", "ValueError", 0, <<>>, ln)
                                EXCEPT !.abstime = abstime.v]
                /\ UNCHANGED <<pc, locals>>
           ELSE /\ result' = Res("get_message", "pending", 0, <<>>, ln)
                /\ pc' = "sleeping"
                /\ locals' = [line |-> ln, abstime |-> abstime.v,
                              hex_can_id |-> msg_match.v.hex_can_id,
                              hex_can_data |-> msg_match.v.hex_can_data]
        /\ handed' = IF AtEnd(raw) \/ result'.outcome = "pending" THEN handed
                     ELSE Append(handed, [raw |-> raw, outcome |-> result'.outcome])

\* CandumpHandler.get_message(), up to the call of time.sleep
CandumpGetMessage ==
    /\ source = "candump" /\ pc = "idle"
    /\ CASE file_object = "None" ->
              \* None has no attribute readline
              /\ result' = Res("get_message", "AttributeError", 0, <<>>, <<>>)
              /\ UNCHANGED <<pos, pc, locals, slept, handed>>
         [] file_object = "closed" ->
              \* I/O operation on closed file
              /\ result' = Res("get_message", "ValueError", 0, <<>>, <<>>)
              /\ UNCHANGED <<pos, pc, locals, slept, handed>>
         [] file_object = "open" -> CandumpReadAndMatch
    /\ UNCHANGED <<source, file_object, file, speed_arg, speed_scale, clock, frame_time,
                   lifecycle>>
    /\ UNCHANGED serialVars

\* time.sleep returns: the clock is set, the id and data are decoded and
\* get_message returns the Frame or raises InvalidFrame
CandumpWake ==
    /\ source = "candump" /\ pc = "sleeping"
    /\ clock' = ClockAfter(locals)
    /\ result' = [CandumpHandler_decode(locals) EXCEPT
                    !.at = result.at, !.clock0 = result.clock0]
    /\ frame_time' = IF result'.outcome = "Frame" THEN locals.abstime ELSE frame_time
    /\ handed' = Append(handed, [raw |-> SubSeq(file, result.at + 1, pos),
                                 outcome |-> result'.outcome])
    /\ pc' = "idle"
    /\ locals' = NoLocals
    /\ UNCHANGED <<source, file_object, file, pos, speed_arg, speed_scale, slept,
                   lifecycle>>
    /\ UNCHANGED serialVars

(***************************************************************************)
(* Specification.                                                          *)
(***************************************************************************)
Init ==
    /\ source \in {"serial", "candump"}
    /\ serial_device = "None"
    /\ IF source = "serial" THEN stream \in SerialStreams ELSE stream = <<>>
    /\ wire = stream
    /\ rx = <<>>
    /\ line = <<>>
    /\ reads = {}
    /\ file_object = "None"
    /\ IF source = "candump" THEN file \in CaptureFiles ELSE file = <<>>
    /\ pos = 0
    /\ IF source = "candump"
       THEN speed_arg \in SpeedArgs
       ELSE speed_arg = [none |-> TRUE, n |-> 0, d |-> 1]
    /\ speed_scale = CandumpHandler_init(speed_arg)
    /\ clock = Zero
    /\ pc = "idle"
    /\ locals = NoLocals
    /\ slept = <<>>
    /\ frame_time = Zero
    /\ lifecycle = "new"
    /\ handed = <<>>
    /\ result = [op |-> "init", outcome |-> "ok", can_id |-> 0, data |-> <<>>,
                 line |-> <<>>, at |-> 0, clock0 |-> Zero, frame_time0 |-> Zero,
                 abstime |-> Zero]

Next ==
    \/ SerialOpen
    \/ SerialClose
    \/ SerialGetMessage
    \/ SerialPoll
    \/ DeviceSend
    \/ CandumpOpen
    \/ CandumpClose
    \/ CandumpGetMessage
    \/ CandumpWake

Spec == Init /\ [][Next]_vars

\* a line with a frame or with a wrong length, and runs of blank lines,
\* complete or followed by a line that never gets its newline
LiveStreams ==
    {Terminated(<<l>>) :
        l \in {FRAME \o <<":", "I", "D", "=", "1", ":", "L", "E", "N", "=", "1", ":", "A", "A">>,
               FRAME \o <<":", "I", "D", "=", "1", ":", "L", "E", "N", "=", "2", ":", "A", "A">>}}
    \cup {Terminated(ls) \o tail :
            ls \in SeqsOf({<<>>}, 0, MaxLines), tail \in {<<>>, UnfinishedLine}}

\* a SerialHandler, its port and its device
InitSerial == Init /\ source = "serial" /\ stream \in LiveStreams

NextSerial ==
    \/ SerialOpen
    \/ SerialClose
    \/ SerialGetMessage
    \/ SerialPoll
    \/ DeviceSend

\* the thread inside get_message() keeps running its while loop; nothing
\* makes the device send
LiveSpec == InitSerial /\ [][NextSerial]_vars /\ WF_vars(SerialPoll)

(***************************************************************************)
(* A second thread that calls close() while get_message() is inside its    *)
(* polling loop or inside time.sleep.                                      *)
(***************************************************************************)
\* close() from another thread; what it returns goes to that thread
CloseWhileBlocked ==
    /\ pc \in {"polling", "sleeping"}
    /\ IF source = "serial"
       THEN /\ serial_device' = CloseHandle(serial_device).handle
            /\ UNCHANGED file_object
       ELSE /\ file_object' = CloseHandle(file_object).handle
            /\ UNCHANGED serial_device
    /\ lifecycle' = "closed"
    /\ UNCHANGED <<source, stream, wire, rx, line, reads, file, pos, speed_arg,
                   speed_scale, clock, pc, locals, slept, frame_time, handed, result>>

\* the next readline() of the loop on the closed port: pyserial raises
\* SerialException when it finds the port closed, TypeError when the close
\* came after that test and select() gets the file descriptor None; the
\* bytes gathered so far go with the call
SerialPollClosed ==
    /\ source = "serial" /\ pc = "polling" /\ serial_device = "closed"
    /\ \E raised \in {"SerialException", "TypeError"} :
          result' = Res("get_message", raised, 0, <<>>, <<>>)
    /\ line' = <<>>
    /\ pc' = "idle"
    /\ UNCHANGED <<source, serial_device, stream, wire, rx, reads, lifecycle, handed>>
    /\ UNCHANGED candumpVars

NextConc ==
    \/ Next
    \/ CloseWhileBlocked
    \/ SerialPollClosed

ConcSpec == Init /\ [][NextConc]_vars

(***************************************************************************)
(* The two line formats as documented, recognised independently of the     *)
(* decoders.                                                               *)
(***************************************************************************)
Handle == IF source = "serial" THEN serial_device ELSE file_object

\* the latest call was a get_message() that has returned or raised
Completed == result.op = "get_message" /\ result.outcome # "pending"

IsPrefix(pre, s) == Len(pre) <= Len(s) /\ SubSeq(s, 1, Len(pre)) = pre

AllIn(s, class) == \A i \in 1..Len(s) : s[i] \in class

ID_EQ == <<"I", "D", "=">>

LEN_EQ == <<"L", "E", "N", "=">>

\* FRAME:ID=<n>:LEN=<k>: followed by k two-digit hex bytes joined by ":"
SerialLineFields(ln) ==
    LET toks == Split(ln, ":", Len(ln))
        n == IF Len(toks) >= 4 THEN SliceFrom(toks[2], 3) ELSE <<>>
        k == IF Len(toks) >= 4 THEN SliceFrom(toks[3], 4) ELSE <<>>
        bytes == IF Len(toks) = 4 /\ toks[4] = <<>> THEN <<>> ELSE SliceFrom(toks, 3)
    IN  [valid |-> /\ Len(toks) >= 4
                   /\ toks[1] = FRAME
                   /\ IsPrefix(ID_EQ, toks[2]) /\ n # <<>> /\ AllIn(n, Digits)
                   /\ IsPrefix(LEN_EQ, toks[3]) /\ k # <<>> /\ AllIn(k, Digits)
                   /\ \A i \in 1..Len(bytes) : Len(bytes[i]) = 2 /\ AllIn(bytes[i], HexAny)
                   /\ Len(bytes) = DecVal(k),
         n |-> n, k |-> k, bytes |-> bytes]

\* the LEN value a serial line declares and the number of bytes its data
\* token holds, where the line has them
DeclaredLength(ln) ==
    LET toks == Split(ln, ":", 3) IN
    IF Len(toks) >= 3 THEN Int_(SliceFrom(toks[3], 4)) ELSE Raise

PayloadLength(ln) ==
    LET toks == Split(ln, ":", 3)
        hex == IF Len(toks) >= 4 THEN Remove(toks[4], ":") ELSE <<"?">>
    IN  IF Len(hex) % 2 = 0 /\ AllIn(hex, HexAny) THEN Ok(Len(hex) \div 2) ELSE Raise

\* the data token of a serial line has an odd number of digits or a
\* character that is neither a hex digit nor the separator
SerialBadHex(ln) ==
    LET toks == Split(ln, ":", 3)
        hex == Remove(toks[4], ":")
    IN  Len(toks) >= 4 /\ (Len(hex) % 2 = 1 \/ ~AllIn(hex, HexAny))

\* (<timestamp>) <interface> <HEX_ID>#<data>: the fields up to "#" as
\* documented, the data field being whatever follows the "#"
CaptureLineFields(ln) ==
    LET close == IndexOf(ln, ")", 1)
        stamp == SubSeq(ln, 2, close - 1)
        rest == SliceFrom(ln, close + 1)
        sp == IndexOf(rest, " ", 1)
        after == SliceFrom(rest, sp)
        hash == IndexOf(after, "#", 1)
        hexid == SubSeq(after, 1, hash - 1)
    IN  [shaped |-> /\ ln # <<>> /\ ln[1] = "(" /\ close > 2
                    /\ Float_(stamp).ok
                    /\ Len(ln) > close /\ ln[close + 1] = " "
                    /\ sp > 1
                    /\ hash > 1 /\ AllIn(hexid, HexUpper),
         stamp |-> stamp, hexid |-> hexid, data |-> SliceFrom(after, hash)]

CaptureBadHex(ln) ==
    LET f == CaptureLineFields(ln) IN
    f.shaped /\ (Len(f.data) % 2 = 1 \/ ~AllIn(f.data, HexUpper))

ValidCaptureLine(ln) ==
    LET f == CaptureLineFields(ln) IN
    f.shaped /\ Len(f.data) % 2 = 0 /\ AllIn(f.data, HexUpper)

\* the bytes of a string of hex pairs, pair by pair
PairBytes(hex) ==
    [i \in 1..(Len(hex) \div 2) |-> 16 * HexVal(hex[2 * i - 1]) + HexVal(hex[2 * i])]

\* the text of a file cut at its newlines
FileLines(text) == Split(text, NL, Len(text))

\* the timestamps of the lines of a text that carry one
RECURSIVE Stamps(_)
Stamps(ls) ==
    IF ls = <<>> THEN <<>>
    ELSE LET m == MSG_RGX_match(Head(ls))
             t == IF m.ok THEN Float_(m.v.abstime) ELSE Raise
         IN  (IF t.ok THEN <<t.v>> ELSE <<>>) \o Stamps(Tail(ls))

NonDecreasing(ts) == \A i \in 1..(Len(ts) - 1) : RatLe(ts[i], ts[i + 1])

\* timestamp of the closest line before position `at` that matched the
\* pattern with a valid timestamp, 0 when there is none
PreviousStamp(at) ==
    LET ts == Stamps(FileLines(SubSeq(file, 1, at))) IN
    IF ts = <<>> THEN Zero ELSE ts[Len(ts)]

(***************************************************************************)
(* Properties.                                                             *)
(***************************************************************************)
\* C1: a serial line becomes a Frame only if its decoded payload has the
\* declared LEN bytes; when the two differ the call raises InvalidFrame.
C1_LengthInvariant ==
    (source = "serial" /\ Completed /\ lifecycle = "open") =>
        /\ result.outcome = "Frame" =>
              /\ DeclaredLength(result.line).ok
              /\ Len(result.data) = DeclaredLength(result.line).v
        /\ ( /\ DeclaredLength(result.line).ok
             /\ PayloadLength(result.line).ok
             /\ PayloadLength(result.line).v # DeclaredLength(result.line).v )
           => result.outcome = "InvalidFrame"

\* a line declaring two bytes and carrying one was refused
C1_Witness ==
    /\ source = "serial" /\ Completed /\ result.outcome = "InvalidFrame"
    /\ DeclaredLength(result.line) = Ok(2)
    /\ PayloadLength(result.line) = Ok(1)

\* C2 (its clause "never returns a Frame"): a line of either format whose
\* data field has an odd number of hex digits or a non-hex character is
\* never decoded into a Frame.
C2_BadHexNeverFrame ==
    (Completed /\ lifecycle = "open" /\ result.outcome = "Frame") =>
        IF source = "serial" THEN ~SerialBadHex(result.line)
        ELSE ~CaptureBadHex(result.line)

\* C3: a well-formed capture line with a timestamp earlier than the replay
\* clock raises nothing: the wait is zero and the Frame is returned.
C3_EarlierTimestampClamped ==
    ( /\ source = "candump" /\ Completed /\ lifecycle = "open"
      /\ ValidCaptureLine(result.line)
      /\ RatLt(Float_(CaptureLineFields(result.line).stamp).v, result.clock0) )
    => (result.outcome = "Frame" /\ slept = <<Zero>>)

\* C4: on an open capture file get_message() raises EOFError exactly when
\* no character of the file is left, and from then on every call does.
C4_EndOfStream ==
    [][ /\ (source' = "candump" /\ Completed' /\ lifecycle' = "open") =>
              (result'.outcome = "EOFError" <=> result'.at = Len(file'))
        /\ ( /\ source = "candump" /\ Completed /\ lifecycle = "open"
             /\ result.outcome = "EOFError" /\ Completed' /\ lifecycle' = "open" )
           => result'.outcome = "EOFError" ]_vars

\* the end of a file that starts with a blank line and has more lines
C4_Witness ==
    /\ source = "candump" /\ Completed /\ lifecycle = "open"
    /\ result.outcome = "EOFError"
    /\ Len(file) > 1 /\ file[1] = NL

C6_ValidSerialLineDecodes ==
    ( /\ source = "serial" /\ Completed /\ lifecycle = "open"
      /\ SerialLineFields(result.line).valid )
    => /\ result.outcome = "Frame"
       /\ result.can_id = DecVal(SerialLineFields(result.line).n)
       /\ result.data = PairBytes(Concat(SerialLineFields(result.line).bytes))
       /\ Len(result.data) = DecVal(SerialLineFields(result.line).k)

\* FRAME:ID=26:LEN=2:1C:F6 was decoded
C6_Witness ==
    /\ source = "serial" /\ Completed
    /\ SerialLineFields(result.line).valid
    /\ result.outcome = "Frame" /\ result.can_id = 26 /\ result.data = <<28, 246>>

\* C7: a valid capture line decodes to the Frame with the base-16 value of
\* its id and the bytes of its hex pairs; an empty data field gives an
\* empty payload.
C7_ValidCaptureLineDecodes ==
    ( /\ source = "candump" /\ Completed /\ lifecycle = "open"
      /\ ValidCaptureLine(result.line) )
    => /\ result.outcome = "Frame"
       /\ result.can_id = HexIntVal(CaptureLineFields(result.line).hexid)
       /\ result.data = PairBytes(CaptureLineFields(result.line).data)

\* C8: get_message() on a source that is not open (never opened, open()
\* failed, or closed) raises at once: no Frame, no end-of-stream, no
\* input consumed, no blocking.
C8_NotOpenFailsFast ==
    lifecycle # "open" =>
        /\ pc = "idle"
        /\ result.op = "get_message" =>
              /\ result.outcome \in {"AttributeError", "SerialException", "ValueError"}
              /\ result.line = <<>>
              /\ result.at = pos

\* get_message() after close() on a capture file with lines left
C8_Witness ==
    /\ source = "candump" /\ lifecycle = "closed"
    /\ result.op = "get_message" /\ result.outcome = "ValueError"
    /\ pos < Len(file)

\* C9: close() on an instance whose open() was never called raises nothing
\* and changes no field.
C9_CloseBeforeOpen ==
    [][ (lifecycle = "new" /\ result'.op = "close" /\ result' # result) =>
            /\ result'.outcome = "ok"
            /\ UNCHANGED <<serial_device, rx, line, file_object, pos,
                           speed_scale, clock, pc, locals>> ]_vars

\* close() was called on a new CandumpHandler
C9_Witness ==
    /\ source = "candump" /\ lifecycle = "new" /\ file_object = "None"
    /\ result.op = "close" /\ result.outcome = "ok"

\* C10: every line read from an open capture file ends in a Frame or in
\* InvalidFrame, no other error.
C10_OnlyFrameOrInvalidFrame ==
    ( /\ source = "candump" /\ Completed /\ lifecycle = "open"
      /\ result.at < Len(file) )
    => result.outcome \in {"Frame", "InvalidFrame"}

\* C11: the stored speed scale is strictly positive in every state: 1.0
\* when the constructor got no value, zero or a negative value, the given
\* value when it is positive, and no operation changes it.
C11_SpeedScalePositive ==
    /\ RatLt(Zero, speed_scale)
    /\ (speed_arg.none \/ speed_arg.n <= 0) => speed_scale = One
    /\ (~speed_arg.none /\ speed_arg.n > 0) =>
          /\ speed_scale.n * speed_arg.d = speed_arg.n * speed_scale.d
          /\ speed_scale.d > 0

\* a handler built with speed_scale=-1 has replayed a frame at speed 1.0
C11_Witness ==
    /\ source = "candump" /\ Completed /\ result.outcome = "Frame"
    /\ ~speed_arg.none /\ speed_arg.n < 0
    /\ speed_scale = One

\* the latest get_message() read a line that matched the pattern and went
\* through the pacing wait
PassedPacing ==
    /\ result.outcome \in {"Frame", "InvalidFrame"}
    /\ MSG_RGX_match(result.line).ok

C13_ClockMonotone ==
    [][ /\ RatLe(clock, clock')
        /\ lifecycle' = "new" => clock' = Zero ]_vars

\* a line with a timestamp earlier than the clock was read and the clock
\* kept its value
C13_Witness ==
    /\ source = "candump" /\ Completed /\ lifecycle = "open"
    /\ MSG_RGX_match(result.line).ok
    /\ Float_(MSG_RGX_match(result.line).v.abstime).ok
    /\ RatLt(Float_(MSG_RGX_match(result.line).v.abstime).v, clock)
    /\ clock = result.clock0

\* a text cut after each newline; a last piece without newline stays whole
RECURSIVE CutLines(_)
CutLines(text) ==
    LET i == IndexOf(text, NL, 1) IN
    IF text = <<>> THEN <<>>
    ELSE IF i = 0 THEN <<text>>
    ELSE <<SubSeq(text, 1, i)>> \o CutLines(SliceFrom(text, i))

\* the raw lines read so far, joined
HandedBytes == Concat([i \in 1..Len(handed) |-> handed[i].raw])

\* C14: however the device's bytes are split into reads, the lines handed
\* to the decoder are the lines of the byte stream, in order, each ending at
\* its first newline, and every byte is in exactly one place.
C14_FragmentedReads ==
    source = "serial" =>
        /\ Len(handed) <= Len(CutLines(stream))
        /\ \A i \in 1..Len(handed) :
              /\ handed[i].raw = CutLines(stream)[i]
              /\ IndexOf(handed[i].raw, NL, 1) = Len(handed[i].raw)
        /\ HandedBytes \o line \o rx \o wire = stream
        /\ (Completed /\ lifecycle = "open") =>
              /\ handed # <<>>
              /\ result.line = Strip(handed[Len(handed)].raw, Whitespace)

\* the second line of a stream was put together from a piece of a line,
\* after a read that brought nothing, and decoded
C14_Witness ==
    /\ source = "serial" /\ Completed /\ result.outcome = "Frame"
    /\ Len(handed) = 2
    /\ reads = {"empty", "partial"}

\* the input the source reads its lines from
Input == IF source = "serial" THEN stream ELSE file

\* every call that read a line read the next line of the input, whole, and
\* a capture file is consumed up to the end of the last line read
OneLinePerCall ==
    /\ Len(handed) <= Len(CutLines(Input))
    /\ \A i \in 1..Len(handed) : handed[i].raw = CutLines(Input)[i]
    /\ (source = "candump" /\ lifecycle = "open" /\ pc = "idle") =>
          pos = Len(HandedBytes)
    /\ (source = "serial" /\ pc = "idle") => line = <<>>

\* a line that misses a token or has bad hex (serial), or that has not the
\* shape "(<number>) <interface> <HEXID>#..." (capture)
Malformed(raw) ==
    IF source = "serial"
    THEN LET ln == Strip(raw, Whitespace) IN
         Len(Split(ln, ":", Len(ln))) < 4 \/ SerialBadHex(ln)
    ELSE ~CaptureLineFields(Strip(raw, {NL})).shaped

\* C15: the calls that read a line are in one-to-one, in-order
\* correspondence with the input lines, and a malformed line gives
\* InvalidFrame (once, for the call that read it).
C15_OneOutcomePerLine ==
    /\ OneLinePerCall
    /\ \A i \in 1..Len(handed) :
          Malformed(handed[i].raw) => handed[i].outcome = "InvalidFrame"

\* C16: whatever the bytes of a complete serial line, get_message() on an
\* open port ends in a Frame or in InvalidFrame for that line, and
\* InvalidFrame comes with no id and no data.
C16_SerialFrameOrInvalidFrame ==
    (source = "serial" /\ Completed /\ lifecycle = "open") =>
        /\ result.outcome \in {"Frame", "InvalidFrame"}
        /\ handed # <<>>
        /\ result.line = Strip(handed[Len(handed)].raw, Whitespace)
        /\ handed[Len(handed)].outcome = result.outcome
        /\ result.outcome = "InvalidFrame" =>
              (result.can_id = 0 /\ result.data = <<>>)
        /\ result.outcome = "Frame" =>
              LET f == SerialHandler_fields(result.line) IN
              /\ f.ok
              /\ result.can_id = f.frame_id /\ result.data = f.data
              /\ Len(result.data) = f.frame_length

\* the line "FRAME", which has no ID token, gave InvalidFrame
C16_Witness ==
    /\ source = "serial" /\ Completed /\ lifecycle = "open"
    /\ result.line = <<"F", "R", "A", "M", "E">>
    /\ result.outcome = "InvalidFrame"

\* C17: every Frame returned by either source has an id that is not
\* negative.
C17_UnsignedId ==
    (Completed /\ result.outcome = "Frame") => result.can_id >= 0

HasNewline(b) == IndexOf(b, NL, 1) > 0

\* C18: a serial get_message() completes only by reading a received
\* newline and never with end-of-stream; while no newline has been
\* received it stays in its loop; once one has been received it completes
\* with a Frame or InvalidFrame.
C18_CompletesOnNewlineOnly ==
    /\ [](source = "serial" => result.outcome # "EOFError")
    /\ [][(source = "serial" /\ Len(handed') > Len(handed)) => HasNewline(rx)]_vars
    /\ [][(source = "serial" /\ pc = "polling" /\ ~HasNewline(rx)) =>
             (pc' = "polling" /\ result'.outcome = "pending"
              /\ handed' = handed)]_vars
    /\ (source = "serial" /\ pc = "polling" /\ HasNewline(rx))
          ~> (pc = "idle" /\ result.outcome \in {"Frame", "InvalidFrame"})

\* the device has sent all it had, without a newline, and the call has
\* read nothing at least once and is still polling
C18_Witness ==
    /\ source = "serial" /\ pc = "polling"
    /\ wire = <<>> /\ rx = <<>> /\ line # <<>>
    /\ "empty" \in reads

\* C19: once another thread has closed the port or the file under a
\* blocked get_message(), the call ends by failing or without a wait left
\* to sit out: a polling call takes no further read, and a call inside a
\* pacing wait longer than zero is not left to finish that wait and return
\* its line's Frame or InvalidFrame.
C19_CloseUnblocks ==
    [][(Handle = "closed" /\ pc \in {"polling", "sleeping"} /\ pc' # pc) =>
          /\ pc' = "idle"
          /\ result'.outcome # "pending"
          /\ \/ result'.outcome \notin {"Frame", "InvalidFrame"}
             \/ (pc = "sleeping" /\ slept = <<Zero>>)]_vars

====
